---- MODULE Spec2Model ----
(***************************************************************************)
(* Model of the polygon sketching controller (PolygonDrawingApp) and of    *)
(* the Polygon / Point value classes it uses.                              *)
(*                                                                         *)
(* Polygon and Point are JavaScript objects: they have an identity and     *)
(* Polygon objects are mutated in place (addVertex, finish).  The model    *)
(* therefore keeps a heap of Polygon objects addressed by reference, and   *)
(* every Point object carries the identity it was allocated with.  A       *)
(* snapshot of the history holds references, exactly as in the source; it  *)
(* is independent of the live state only because clone() allocates.        *)
(***************************************************************************)
EXTENDS Integers, Sequences, FiniteSets, TLC

\* Bounds of the model.
MaxHistory == 6
NumPoints == 3

VARIABLES
    heap,                      \* the Polygon objects, by reference 1..Len(heap)
    polygons,                  \* this.polygons: references of finished polygons
    currentPolygon,            \* this.currentPolygon: a reference or NULL
    previewPoint,              \* this.previewPoint: <<>> for null, or <<position>>
    history,                   \* this.history: snapshots (references)
    historyIndex,              \* this.historyIndex (0-based, as in the source)
    currentPolygonStartIndex,  \* this.currentPolygonStartIndex (0-based)
    event,                     \* the handler that ran last
    prior,                     \* what was drawn, and historyIndex, before that handler ran
    stroke,                    \* the clicks-then-undos run in progress, if any
    round,                     \* the undos-then-redos run in progress, if any
    undoOnly,                  \* <<n>> once only undo is requested, n requests still due
    early,                     \* the fields of the early-return variant run side by side
    threw                      \* whether that handler ended in a TypeError

vars == <<heap, polygons, currentPolygon, previewPoint, history, historyIndex,
          currentPolygonStartIndex, event, prior, threw, stroke, round, undoOnly,
          early>>

NULL == 0

Min(a, b) == IF a < b THEN a ELSE b

Range(s) == {s[i] : i \in 1..Len(s)}

\* The positions getMousePos returns (canvas coordinates) in the model.
MousePositions == {[x |-> i, y |-> i] : i \in 1..NumPoints}

-----------------------------------------------------------------------------
\* Point and Polygon objects.

\* Array.prototype.slice(0, end) for end >= 0: end is clamped to the length.
slice(arr, end) == SubSeq(arr, 1, Min(end, Len(arr)))

\* The number of Point objects held by the polygons of heap h.
RECURSIVE PointCount(_)
PointCount(h) == IF h = <<>> THEN 0 ELSE Len(Head(h).vertices) + PointCount(Tail(h))

\* An identity no Point object of h has: what `new Point` returns.  Identities
\* are handed out in sequence, so they never exceed the number of points.
NewPointId(h) == 1 + PointCount(h)

\* Point.clone(): a new Point object with the same coordinates.
Point_clone(pt, newId) == [id |-> newId, x |-> pt.x, y |-> pt.y]

\* new Polygon(): no vertices, not finished.
NewPolygon == [vertices |-> <<>>, isFinished |-> FALSE]

\* Polygon.addVertex(point) putting the clone in front (unshift for push).
Polygon_addVertex_front(h, r, pos) ==
    [h EXCEPT ![r].vertices =
        <<Point_clone([id |-> NULL, x |-> pos.x, y |-> pos.y], NewPointId(h))>> \o @]

\* Polygon.addVertex(point) on the object r: pushes a clone of the point.
Polygon_addVertex(h, r, pos) ==
    [h EXCEPT ![r].vertices =
        Append(@, Point_clone([id |-> NULL, x |-> pos.x, y |-> pos.y], NewPointId(h)))]

\* Polygon.finish() that leaves the flag as it was.
Polygon_finish_noFlag(h, r) == h

\* Polygon.finish() on the object r.
Polygon_finish(h, r) == [h EXCEPT ![r].isFinished = TRUE]

\* Polygon.clone() of the object r: allocates a new Polygon whose vertices are
\* clones of r's vertices; returns the heap with the new object and its reference.
\* (H is the heap h, evaluated once.)
Polygon_clone(h, r) ==
    CHOOSE result \in
        {LET base == NewPointId(H)
             copy == [vertices   |-> [i \in 1..Len(H[r].vertices) |->
                                         Point_clone(H[r].vertices[i], base + i - 1)],
                      isFinished |-> H[r].isFinished]
         IN  [heap |-> Append(H, copy), ref |-> Len(H) + 1] : H \in {h}} : TRUE

\* arr.map(p => p.clone()): a new array of clones, in order.
RECURSIVE ClonePolygons(_, _)
ClonePolygons(h, refs) ==
    IF refs = <<>> THEN [heap |-> h, refs |-> <<>>]
    ELSE LET first == Polygon_clone(h, Head(refs))
             rest  == ClonePolygons(first.heap, Tail(refs))
         IN  [heap |-> rest.heap, refs |-> <<first.ref>> \o rest.refs]

\* x ? x.clone() : null
CloneOrNull(h, r) ==
    IF r # NULL THEN Polygon_clone(h, r) ELSE [heap |-> h, ref |-> NULL]

-----------------------------------------------------------------------------
\* The controller's fields as one record, so that handlers compose.

App == [heap |-> heap, polygons |-> polygons, currentPolygon |-> currentPolygon,
        previewPoint |-> previewPoint, history |-> history,
        historyIndex |-> historyIndex,
        currentPolygonStartIndex |-> currentPolygonStartIndex,
        threw |-> FALSE]

\* updateUI: the enablement of the undo and redo buttons.
canUndo(S) == ~(S.historyIndex <= 0)
canRedo(S) == ~(S.historyIndex >= Len(S.history) - 1)

\* saveToHistory() storing the live objects themselves instead of clones.
saveToHistory_noClone(S) ==
    [S EXCEPT !.history = Append(slice(S.history, S.historyIndex + 1),
                                 [polygons |-> S.polygons, currentPolygon |-> S.currentPolygon]),
              !.historyIndex = S.historyIndex + 1]

\* saveToHistory(): drop the snapshots after historyIndex, push a snapshot of
\* clones, advance historyIndex.
saveToHistory(S) ==
    LET kept == slice(S.history, S.historyIndex + 1)
        ps   == ClonePolygons(S.heap, S.polygons)
        cp   == CloneOrNull(ps.heap, S.currentPolygon)
        state == [polygons |-> ps.refs, currentPolygon |-> cp.ref]
    IN  [S EXCEPT !.heap = cp.heap,
                  !.history = Append(kept, state),
                  !.historyIndex = S.historyIndex + 1]

\* The restoring part without `this.previewPoint = null`.
restore_keepPreview(S) ==
    IF S.historyIndex < 0 \/ S.historyIndex + 1 > Len(S.history)
    THEN [S EXCEPT !.threw = TRUE]
    ELSE LET state == S.history[S.historyIndex + 1]
             ps    == ClonePolygons(S.heap, state.polygons)
             cp    == CloneOrNull(ps.heap, state.currentPolygon)
         IN  [S EXCEPT !.heap = cp.heap,
                       !.polygons = ps.refs,
                       !.currentPolygon = cp.ref]

\* The part undo() and redo() share: read history[historyIndex] and replace the
\* live polygons by clones.  Reading past the end of the array gives undefined,
\* and `state.polygons` then throws a TypeError: the handler stops there, with
\* historyIndex already changed.
restore(S) ==
    IF S.historyIndex < 0 \/ S.historyIndex + 1 > Len(S.history)
    THEN [S EXCEPT !.threw = TRUE]
    ELSE LET state == S.history[S.historyIndex + 1]
             ps    == ClonePolygons(S.heap, state.polygons)
             cp    == CloneOrNull(ps.heap, state.currentPolygon)
         IN  [S EXCEPT !.heap = cp.heap,
                       !.polygons = ps.refs,
                       !.currentPolygon = cp.ref,
                       !.previewPoint = <<>>]

\* handleClick
click(S, pos) ==
    LET S1 == IF S.currentPolygon = NULL
              THEN [S EXCEPT !.heap = Append(S.heap, NewPolygon),
                             !.currentPolygon = Len(S.heap) + 1,
                             !.currentPolygonStartIndex = S.historyIndex]
              ELSE S
        S2 == [S1 EXCEPT !.heap = Polygon_addVertex(S1.heap, S1.currentPolygon, pos)]
    IN  saveToHistory(S2)

\* The guard of handleDoubleClick with 2 in place of 3.
canFinish_two(S) ==
    S.currentPolygon # NULL /\ Len(S.heap[S.currentPolygon].vertices) >= 2

\* The guard of handleDoubleClick.
canFinish(S) ==
    S.currentPolygon # NULL /\ Len(S.heap[S.currentPolygon].vertices) >= 3

\* handleDoubleClick without the consolidation of the history.
doubleClick_noConsolidate(S) ==
    IF canFinish(S)
    THEN saveToHistory([S EXCEPT !.heap = Polygon_finish(S.heap, S.currentPolygon),
                                 !.polygons = Append(S.polygons, S.currentPolygon),
                                 !.currentPolygon = NULL,
                                 !.previewPoint = <<>>])
    ELSE S

\* handleDoubleClick consolidating to the snapshots before the recorded origin.
doubleClick_dropOrigin(S) ==
    IF canFinish(S)
    THEN saveToHistory([S EXCEPT !.heap = Polygon_finish(S.heap, S.currentPolygon),
                                 !.polygons = Append(S.polygons, S.currentPolygon),
                                 !.history = slice(S.history, S.currentPolygonStartIndex),
                                 !.historyIndex = S.currentPolygonStartIndex - 1,
                                 !.currentPolygon = NULL,
                                 !.previewPoint = <<>>])
    ELSE S

\* handleDoubleClick
doubleClick(S) ==
    IF canFinish(S)
    THEN LET S1 == [S EXCEPT !.heap = Polygon_finish(S.heap, S.currentPolygon),
                             !.polygons = Append(S.polygons, S.currentPolygon)]
             S2 == [S1 EXCEPT !.history = slice(S1.history, S1.currentPolygonStartIndex + 1),
                              !.historyIndex = S1.currentPolygonStartIndex]
             S3 == [S2 EXCEPT !.currentPolygon = NULL, !.previewPoint = <<>>]
         IN  saveToHistory(S3)
    ELSE S

\* handleMouseMove without its guard.
mouseMove_unguarded(S, pos) == [S EXCEPT !.previewPoint = <<pos>>]

\* handleMouseMove
mouseMove(S, pos) ==
    IF S.currentPolygon # NULL /\ Len(S.heap[S.currentPolygon].vertices) > 0
    THEN [S EXCEPT !.previewPoint = <<pos>>]
    ELSE S

\* undo() with 1 in place of 0 in its guard.
undoApp_guardOffByOne(S) ==
    IF S.historyIndex > 1
    THEN restore([S EXCEPT !.historyIndex = S.historyIndex - 1])
    ELSE S

\* undo()
undoApp(S) ==
    IF S.historyIndex > 0
    THEN restore([S EXCEPT !.historyIndex = S.historyIndex - 1])
    ELSE S

\* redo() reading the snapshot before it increments historyIndex.
redoApp_readFirst(S) ==
    IF S.historyIndex < Len(S.history) - 1
    THEN [restore(S) EXCEPT !.historyIndex = S.historyIndex + 1]
    ELSE S

\* redo() with <= in place of < in its guard.
redoApp_guardOffByOne(S) ==
    IF S.historyIndex <= Len(S.history) - 1
    THEN restore([S EXCEPT !.historyIndex = S.historyIndex + 1])
    ELSE S

\* redo()
redoApp(S) ==
    IF S.historyIndex < Len(S.history) - 1
    THEN restore([S EXCEPT !.historyIndex = S.historyIndex + 1])
    ELSE S

\* clear() without `this.previewPoint = null`.
clearApp_keepPreview(S) ==
    saveToHistory([S EXCEPT !.polygons = <<>>, !.currentPolygon = NULL])

\* clear()
clearApp(S) ==
    saveToHistory([S EXCEPT !.polygons = <<>>,
                            !.currentPolygon = NULL,
                            !.previewPoint = <<>>])

-----------------------------------------------------------------------------
\* The early-return variant of the controller.  It imports the same Point and
\* Polygon classes; its handlers are translated from its own text.

\* saveToHistory() of the early-return variant.
saveToHistoryEarly(S) ==
    LET kept == slice(S.history, S.historyIndex + 1)
        ps   == ClonePolygons(S.heap, S.polygons)
        cp   == CloneOrNull(ps.heap, S.currentPolygon)
        state == [polygons |-> ps.refs, currentPolygon |-> cp.ref]
    IN  [S EXCEPT !.heap = cp.heap,
                  !.history = Append(kept, state),
                  !.historyIndex = S.historyIndex + 1]

\* handleClick of the early-return variant.
clickEarly(S, pos) ==
    LET S1 == IF S.currentPolygon = NULL
              THEN [S EXCEPT !.heap = Append(S.heap, NewPolygon),
                             !.currentPolygon = Len(S.heap) + 1,
                             !.currentPolygonStartIndex = S.historyIndex]
              ELSE S
        S2 == [S1 EXCEPT !.heap = Polygon_addVertex(S1.heap, S1.currentPolygon, pos)]
    IN  saveToHistoryEarly(S2)

\* handleDoubleClick of the early-return variant.
doubleClickEarly(S) ==
    IF S.currentPolygon # NULL /\ Len(S.heap[S.currentPolygon].vertices) >= 3
    THEN LET S1 == [S EXCEPT !.heap = Polygon_finish(S.heap, S.currentPolygon),
                             !.polygons = Append(S.polygons, S.currentPolygon)]
             S2 == [S1 EXCEPT !.history = slice(S1.history, S1.currentPolygonStartIndex + 1),
                              !.historyIndex = S1.currentPolygonStartIndex]
             S3 == [S2 EXCEPT !.currentPolygon = NULL, !.previewPoint = <<>>]
         IN  saveToHistoryEarly(S3)
    ELSE S

\* handleMouseMove of the early-return variant.
mouseMoveEarly(S, pos) ==
    IF S.currentPolygon # NULL /\ Len(S.heap[S.currentPolygon].vertices) > 0
    THEN [S EXCEPT !.previewPoint = <<pos>>]
    ELSE S

\* undo() of the early-return variant: return when historyIndex <= 0.
undoEarly(S) ==
    IF S.historyIndex <= 0
    THEN S
    ELSE restore([S EXCEPT !.historyIndex = S.historyIndex - 1])

\* redo() of the early-return variant with > in place of >= in its guard.
redoEarly_guardOffByOne(S) ==
    IF S.historyIndex > Len(S.history) - 1
    THEN S
    ELSE restore([S EXCEPT !.historyIndex = S.historyIndex + 1])

\* redo() of the early-return variant: return when historyIndex >= length - 1.
redoEarly(S) ==
    IF S.historyIndex >= Len(S.history) - 1
    THEN S
    ELSE restore([S EXCEPT !.historyIndex = S.historyIndex + 1])

\* clear() of the early-return variant.
clearEarly(S) ==
    saveToHistoryEarly([S EXCEPT !.polygons = <<>>,
                                 !.currentPolygon = NULL,
                                 !.previewPoint = <<>>])

-----------------------------------------------------------------------------
\* Object identities are addresses: only which references are equal matters.
\* After each handler the unreachable objects are dropped (garbage) and the
\* reachable ones are renamed in the order in which the controller's fields
\* reach them, so that two heaps that differ only in addresses are one state.

Opt(r) == IF r = NULL THEN <<>> ELSE <<r>>

RECURSIVE SnapshotRefs(_)
SnapshotRefs(hist) ==
    IF hist = <<>> THEN <<>>
    ELSE hist[1].polygons \o Opt(hist[1].currentPolygon) \o SnapshotRefs(Tail(hist))

RECURSIVE Distinct(_, _)
Distinct(s, acc) ==
    IF s = <<>> THEN acc
    ELSE IF Head(s) \in Range(acc) THEN Distinct(Tail(s), acc)
         ELSE Distinct(Tail(s), Append(acc, Head(s)))

\* s without repetitions, in order of first occurrence.
FirstOccurrences(s) == IF Cardinality(Range(s)) = Len(s) THEN s ELSE Distinct(s, <<>>)

\* The renaming that sends the i-th element of `order` to i.
Renaming(order) == [x \in Range(order) |-> CHOOSE i \in 1..Len(order) : order[i] = x]

RECURSIVE VertexIds(_, _)
VertexIds(h, order) ==
    IF order = <<>> THEN <<>>
    ELSE [i \in 1..Len(h[Head(order)].vertices) |-> h[Head(order)].vertices[i].id]
         \o VertexIds(h, Tail(order))

\* The general renaming, for heaps in which some object is reached twice.
NormalizeShared(S, order) ==
    LET ids   == FirstOccurrences(VertexIds(S.heap, order))
        rho   == Renaming(order)
        pi    == Renaming(ids)
        ren(r) == IF r = NULL THEN NULL ELSE rho[r]
        renAll(rs) == [i \in 1..Len(rs) |-> rho[rs[i]]]
        obj(r) == [vertices |-> [i \in 1..Len(S.heap[r].vertices) |->
                                    [S.heap[r].vertices[i] EXCEPT !.id = pi[@]]],
                   isFinished |-> S.heap[r].isFinished]
    IN  [S EXCEPT !.heap = [k \in 1..Len(order) |-> obj(order[k])],
                  !.polygons = renAll(S.polygons),
                  !.currentPolygon = ren(S.currentPolygon),
                  !.history = [k \in 1..Len(S.history) |->
                                  [polygons |-> renAll(S.history[k].polygons),
                                   currentPolygon |-> ren(S.history[k].currentPolygon)]]]

\* The same renaming when every object is reached once: the objects are
\* numbered as they are met.
RECURSIVE RenumberHeap(_, _, _)
RenumberHeap(h, order, base) ==
    IF order = <<>> THEN <<>>
    ELSE LET o == h[Head(order)] IN
         <<[vertices |-> [i \in 1..Len(o.vertices) |-> [o.vertices[i] EXCEPT !.id = base + i]],
            isFinished |-> o.isFinished]>>
         \o RenumberHeap(h, Tail(order), base + Len(o.vertices))

RECURSIVE RenumberHistory(_, _)
RenumberHistory(hist, base) ==
    IF hist = <<>> THEN <<>>
    ELSE LET n == Len(hist[1].polygons)
             c == IF hist[1].currentPolygon = NULL THEN 0 ELSE 1
         IN  <<[polygons |-> [i \in 1..n |-> base + i],
                currentPolygon |-> IF c = 0 THEN NULL ELSE base + n + 1]>>
             \o RenumberHistory(Tail(hist), base + n + c)

NormalizeUnshared(S, order) ==
    LET n == Len(S.polygons)
        c == IF S.currentPolygon = NULL THEN 0 ELSE 1
    IN  [S EXCEPT !.heap = RenumberHeap(S.heap, order, 0),
                  !.polygons = [i \in 1..n |-> i],
                  !.currentPolygon = IF c = 0 THEN NULL ELSE n + 1,
                  !.history = RenumberHistory(S.history, n + c)]

\* A handler that allocated nothing and moved no reference leaves the names as
\* they are.
Normalize(S) ==
    LET refs  == S.polygons \o Opt(S.currentPolygon) \o SnapshotRefs(S.history)
        vids  == VertexIds(S.heap, refs)
    IN  IF /\ S.heap = heap /\ S.polygons = polygons
           /\ S.currentPolygon = currentPolygon /\ S.history = history
        THEN S
        ELSE IF Cardinality(Range(refs)) = Len(refs) /\ Cardinality(Range(vids)) = Len(vids)
        THEN NormalizeUnshared(S, refs)
        ELSE NormalizeShared(S, FirstOccurrences(refs))

\* Values: what a reference stands for, without identities (deep equality).

PolygonValue(h, r) ==
    [vertices   |-> [i \in 1..Len(h[r].vertices) |->
                        [x |-> h[r].vertices[i].x, y |-> h[r].vertices[i].y]],
     isFinished |-> h[r].isFinished]

\* The value of an optional polygon: <<>> for null, <<value>> otherwise.
OptValue(h, r) == IF r = NULL THEN <<>> ELSE <<PolygonValue(h, r)>>

ListValue(h, rs) == [i \in 1..Len(rs) |-> PolygonValue(h, rs[i])]

SnapshotValue(h, s) ==
    [polygons |-> ListValue(h, s.polygons), currentPolygon |-> OptValue(h, s.currentPolygon)]

HistoryValue(h, hist) == [k \in 1..Len(hist) |-> SnapshotValue(h, hist[k])]

\* What is drawn: the finished polygons and the polygon in progress.
LiveValue(h, ps, cp) == [polygons |-> ListValue(h, ps), currentPolygon |-> OptValue(h, cp)]

\* What the observer `prior` keeps of a state.
Observed == [live |-> LiveValue(heap, polygons, currentPolygon),
             previewPoint |-> previewPoint,
             historyIndex |-> historyIndex]

\* The fields after a handler has run.  (V is the handler's result and N its
\* normal form, each evaluated once.)
Commit(S, name) ==
    \E V \in {S} : \E N \in {Normalize(V)} :
    /\ Len(N.history) <= MaxHistory
    /\ N.historyIndex <= MaxHistory
    /\ heap' = N.heap
    /\ polygons' = N.polygons
    /\ currentPolygon' = N.currentPolygon
    /\ previewPoint' = N.previewPoint
    /\ history' = N.history
    /\ historyIndex' = N.historyIndex
    /\ currentPolygonStartIndex' = N.currentPolygonStartIndex
    /\ event' = name
    /\ prior' = Observed
    /\ threw' = N.threw

-----------------------------------------------------------------------------
\* The state after construction, and one action per event handler.

\* The controller's fields after construction.
Constructed ==
    [heap |-> <<>>, polygons |-> <<>>, currentPolygon |-> NULL, previewPoint |-> <<>>,
     history |-> <<[polygons |-> <<>>, currentPolygon |-> NULL]>>,
     historyIndex |-> 0, currentPolygonStartIndex |-> 0, threw |-> FALSE]

Init ==
    /\ heap = <<>>
    /\ polygons = <<>>
    /\ currentPolygon = NULL
    /\ previewPoint = <<>>
    /\ history = <<[polygons |-> <<>>, currentPolygon |-> NULL]>>
    /\ historyIndex = 0
    /\ currentPolygonStartIndex = 0
    /\ event = "constructor"
    /\ prior = Observed
    /\ threw = FALSE
    /\ stroke = <<>>
    /\ round = <<>>
    /\ undoOnly = <<>>
    /\ early = Constructed

\* Where the pointer is when the next vertex is placed: the vertices of a
\* polygon are placed at the positions 1, 2, .., NumPoints, 1, .. in turn, so
\* that consecutive vertices differ and their order is visible.
ClickPosition ==
    LET n == IF currentPolygon = NULL THEN 0 ELSE Len(heap[currentPolygon].vertices)
    IN  [x |-> (n % NumPoints) + 1, y |-> (n % NumPoints) + 1]

handleClick ==
    \E pos \in MousePositions :
        pos = ClickPosition /\ Commit(click(App, pos), "handleClick")

handleDoubleClick == Commit(doubleClick(App), "handleDoubleClick")

handleMouseMove == \E pos \in MousePositions : Commit(mouseMove(App, pos), "handleMouseMove")

undo == Commit(undoApp(App), "undo")

redo == Commit(redoApp(App), "redo")

clear == Commit(clearApp(App), "clear")

Next ==
    \/ handleClick /\ UNCHANGED <<stroke, round, undoOnly, early>>
    \/ handleDoubleClick /\ UNCHANGED <<stroke, round, undoOnly, early>>
    \/ handleMouseMove /\ UNCHANGED <<stroke, round, undoOnly, early>>
    \/ undo /\ UNCHANGED <<stroke, round, undoOnly, early>>
    \/ redo /\ UNCHANGED <<stroke, round, undoOnly, early>>
    \/ clear /\ UNCHANGED <<stroke, round, undoOnly, early>>

Spec == Init /\ [][Next]_vars

-----------------------------------------------------------------------------
\* Observers of event sequences.  They record what a claim about several
\* consecutive events refers to; no handler reads them.

Live == LiveValue(heap, polygons, currentPolygon)

\* stroke: clicks P1..Pk that started from a state without polygon in progress,
\* followed by undos.  <<>> when the events so far are no such run.
StrokeObserver ==
    stroke' =
        CASE event' = "handleClick" /\ currentPolygon = NULL ->
                <<[base  |-> ListValue(heap, polygons),
                   points |-> <<ClickPosition>>,
                   undos |-> 0]>>
          [] event' = "handleClick" /\ currentPolygon # NULL /\ stroke # <<>> /\ stroke[1].undos = 0 ->
                <<[stroke[1] EXCEPT !.points =
                      Append(@, ClickPosition)]>>
          [] event' = "undo" /\ stroke # <<>> /\ stroke[1].undos < Len(stroke[1].points) ->
                <<[stroke[1] EXCEPT !.undos = @ + 1]>>
          [] OTHER -> <<>>

NextStroke ==
    \/ handleClick /\ StrokeObserver /\ UNCHANGED <<round, undoOnly, early>>
    \/ handleDoubleClick /\ StrokeObserver /\ UNCHANGED <<round, undoOnly, early>>
    \/ handleMouseMove /\ StrokeObserver /\ UNCHANGED <<round, undoOnly, early>>
    \/ undo /\ StrokeObserver /\ UNCHANGED <<round, undoOnly, early>>
    \/ redo /\ StrokeObserver /\ UNCHANGED <<round, undoOnly, early>>
    \/ clear /\ StrokeObserver /\ UNCHANGED <<round, undoOnly, early>>

SpecStroke == Init /\ [][NextStroke]_vars

\* round: undos that started in a state whose historyIndex was the last index,
\* followed by redos.  <<>> when the events so far are no such run.
RoundObserver ==
    round' =
        CASE event' = "undo" /\ round # <<>> /\ round[1].redos = 0 /\ round[1].undos < MaxHistory ->
                <<[round[1] EXCEPT !.undos = @ + 1]>>
          [] event' = "undo" /\ ~(round # <<>> /\ round[1].redos = 0)
                            /\ historyIndex = Len(history) - 1 ->
                <<[origin |-> Live, index |-> historyIndex, undos |-> 1, redos |-> 0]>>
          [] event' = "redo" /\ round # <<>> /\ round[1].redos < round[1].undos ->
                <<[round[1] EXCEPT !.redos = @ + 1]>>
          [] OTHER -> <<>>

NextRound ==
    \/ handleClick /\ RoundObserver /\ UNCHANGED <<stroke, undoOnly, early>>
    \/ handleDoubleClick /\ RoundObserver /\ UNCHANGED <<stroke, undoOnly, early>>
    \/ handleMouseMove /\ RoundObserver /\ UNCHANGED <<stroke, undoOnly, early>>
    \/ undo /\ RoundObserver /\ UNCHANGED <<stroke, undoOnly, early>>
    \/ redo /\ RoundObserver /\ UNCHANGED <<stroke, undoOnly, early>>
    \/ clear /\ RoundObserver /\ UNCHANGED <<stroke, undoOnly, early>>

SpecRound == Init /\ [][NextRound]_vars

\* undoOnly: from some state on, the only requests are undo requests, and they
\* keep coming.  The observer counts down from the historyIndex of that state.
UndoRequestsOnly ==
    /\ undo
    /\ undoOnly' = IF undoOnly = <<>>
                   THEN <<IF historyIndex > 0 THEN historyIndex - 1 ELSE 0>>
                   ELSE <<IF undoOnly[1] > 0 THEN undoOnly[1] - 1 ELSE 0>>
    /\ UNCHANGED <<stroke, round, early>>

NextUndoOnly ==
    \/ undoOnly = <<>> /\ handleClick /\ UNCHANGED <<stroke, round, undoOnly, early>>
    \/ undoOnly = <<>> /\ handleDoubleClick /\ UNCHANGED <<stroke, round, undoOnly, early>>
    \/ undoOnly = <<>> /\ handleMouseMove /\ UNCHANGED <<stroke, round, undoOnly, early>>
    \/ undoOnly = <<>> /\ undo /\ UNCHANGED <<stroke, round, undoOnly, early>>
    \/ undoOnly = <<>> /\ redo /\ UNCHANGED <<stroke, round, undoOnly, early>>
    \/ undoOnly = <<>> /\ clear /\ UNCHANGED <<stroke, round, undoOnly, early>>
    \/ UndoRequestsOnly

SpecUndoOnly ==
    Init /\ [][NextUndoOnly]_vars /\ WF_vars(undoOnly # <<>> /\ UndoRequestsOnly)

\* early: the early-return variant receives the same events, with the same
\* pointer positions, as the documented variant.
EarlyApp == [early EXCEPT !.threw = FALSE]

\* The fields of the early-return variant after a handler has run.
EarlyCommit(S) == \E V \in {S} : early' = Normalize(V)

BothHandleClick ==
    \E pos \in MousePositions :
        /\ pos = ClickPosition
        /\ Commit(click(App, pos), "handleClick")
        /\ EarlyCommit(clickEarly(EarlyApp, pos))

BothHandleDoubleClick ==
    Commit(doubleClick(App), "handleDoubleClick") /\ EarlyCommit(doubleClickEarly(EarlyApp))

BothHandleMouseMove ==
    \E pos \in MousePositions :
        /\ Commit(mouseMove(App, pos), "handleMouseMove")
        /\ EarlyCommit(mouseMoveEarly(EarlyApp, pos))

BothUndo == Commit(undoApp(App), "undo") /\ EarlyCommit(undoEarly(EarlyApp))

BothRedo == Commit(redoApp(App), "redo") /\ EarlyCommit(redoEarly(EarlyApp))

BothClear == Commit(clearApp(App), "clear") /\ EarlyCommit(clearEarly(EarlyApp))

NextVariants ==
    \/ BothHandleClick /\ UNCHANGED <<stroke, round, undoOnly>>
    \/ BothHandleDoubleClick /\ UNCHANGED <<stroke, round, undoOnly>>
    \/ BothHandleMouseMove /\ UNCHANGED <<stroke, round, undoOnly>>
    \/ BothUndo /\ UNCHANGED <<stroke, round, undoOnly>>
    \/ BothRedo /\ UNCHANGED <<stroke, round, undoOnly>>
    \/ BothClear /\ UNCHANGED <<stroke, round, undoOnly>>

SpecVariants == Init /\ [][NextVariants]_vars

-----------------------------------------------------------------------------
\* Shorthands for the claims.

\* The handler that ran last was a double click that finished a polygon.
FinishedPolygon ==
    /\ event = "handleDoubleClick"
    /\ prior.live.currentPolygon # <<>>
    /\ Len(prior.live.currentPolygon[1].vertices) >= 3

-----------------------------------------------------------------------------
\* C1: when a double click has finished the polygon in progress, a single undo
\* right after it leaves no polygon in progress and the finished list as it was
\* just before the finish.
C1_UndoAfterFinishRestoresPreStart ==
    [][(FinishedPolygon /\ event' = "undo")
         => (currentPolygon' = NULL /\ ListValue(heap', polygons') = prior.live.polygons)]_vars

\* C2: in every reachable state 0 <= historyIndex < length(history).
C2_HistoryIndexInRange == 0 <= historyIndex /\ historyIndex < Len(history)

\* C3: from a state without polygon in progress, after k clicks at P1..Pk and
\* then j undos (1 <= j <= k), the finished list is as before the clicks and the
\* polygon in progress is the unfinished polygon P1..P(k-j) when j < k, and
\* absent when j = k.
C3_VertexLevelUndo ==
    (stroke # <<>> /\ stroke[1].undos >= 1) =>
        LET k == Len(stroke[1].points)
            j == stroke[1].undos
        IN  /\ Live.polygons = stroke[1].base
            /\ Live.currentPolygon =
                   IF j < k
                   THEN <<[vertices |-> SubSeq(stroke[1].points, 1, k - j), isFinished |-> FALSE]>>
                   ELSE <<>>

\* C4: from a state whose historyIndex is the last index, k undos followed by k
\* redos bring back what was drawn and the historyIndex.
C4_UndoRedoSymmetry ==
    (round # <<>> /\ round[1].redos = round[1].undos) =>
        (Live = round[1].origin /\ historyIndex = round[1].index)

C4_Witness ==
    /\ round # <<>>
    /\ round[1].undos = 3
    /\ round[1].redos = 3
    /\ round[1].index = 3
    /\ Live.currentPolygon # <<>>

\* C5: a push by a click or by clear, at historyIndex i, keeps the snapshots
\* 0..i, discards the later ones, appends one, and ends with i + 2 snapshots and
\* historyIndex = i + 1, the last index, so that redo is not possible.
C5_LinearTruncation ==
    [][event' \in {"handleClick", "clear"} =>
          /\ Len(history') = historyIndex + 2
          /\ historyIndex' = historyIndex + 1
          /\ \A k \in 1..(historyIndex + 1) :
                 SnapshotValue(heap', history'[k]) = SnapshotValue(heap, history[k])
          /\ ~(historyIndex' < Len(history') - 1)]_vars

\* The handler of this step pushes a snapshot.
Pushes ==
    \/ event' \in {"handleClick", "clear"}
    \/ event' = "handleDoubleClick" /\ currentPolygon # NULL /\ currentPolygon' = NULL

\* No Polygon object and no Point object is reached twice from the live fields
\* and the snapshots.
NoSharing(h, ps, cp, hist) ==
    LET refs == ps \o Opt(cp) \o SnapshotRefs(hist)
        vids == VertexIds(h, refs)
    IN  Cardinality(Range(refs)) = Len(refs) /\ Cardinality(Range(vids)) = Len(vids)

\* C6: a snapshot that stays in the history keeps its content whatever the
\* handler does to the live state, and no polygon or vertex object is shared
\* between a snapshot and the live state or between two snapshots.
C6_SnapshotIsolation ==
    [][/\ \A k \in 1..(IF Pushes THEN Len(history') - 1 ELSE Len(history')) :
             SnapshotValue(heap', history'[k]) = SnapshotValue(heap, history[k])
       /\ NoSharing(heap', polygons', currentPolygon', history')]_vars

C6_Witness ==
    /\ event = "handleClick"
    /\ Len(history) >= 3
    /\ history[Len(history) - 1].currentPolygon # NULL
    /\ currentPolygon # NULL
    /\ Len(heap[currentPolygon].vertices) = 1 + Len(heap[history[Len(history) - 1].currentPolygon].vertices)

\* C7: a double click while there is no polygon in progress, or one with fewer
\* than 3 vertices, changes nothing.
C7_FinishGuard ==
    [][(event' = "handleDoubleClick"
          /\ (currentPolygon = NULL \/ Len(heap[currentPolygon].vertices) < 3))
        => UNCHANGED <<heap, polygons, currentPolygon, previewPoint, history,
                       historyIndex, currentPolygonStartIndex>>]_vars

C7_Witness ==
    /\ event = "handleDoubleClick"
    /\ currentPolygon # NULL
    /\ Len(heap[currentPolygon].vertices) = 2
    /\ previewPoint # <<>>

\* C8 as stated: after any undo and any redo the preview point is absent.
C8_PreviewAbsentAfterUndoRedo ==
    event \in {"undo", "redo"} => previewPoint = <<>>

\* C8 amended: an undo or redo that restores a snapshot (it moves historyIndex
\* to a position that holds one) leaves no preview point; one that restores
\* nothing leaves the preview point as it was.
C8_PreviewAfterUndoRedo ==
    [][event' \in {"undo", "redo"} =>
          IF historyIndex' # historyIndex /\ historyIndex' < Len(history')
          THEN previewPoint' = <<>>
          ELSE previewPoint' = previewPoint]_vars

C8_Witness ==
    /\ event = "undo"
    /\ prior.previewPoint # <<>>
    /\ historyIndex = prior.historyIndex - 1
    /\ historyIndex < Len(history)
    /\ currentPolygon # NULL
    /\ previewPoint = <<>>

\* C9: undo and redo never fail: neither reads a history position that holds
\* no snapshot.
C9_UndoRedoNeverFail == ~threw

\* C10: undo at historyIndex 0 and redo at the last index change neither what is
\* drawn nor the history nor historyIndex.
C10_BoundaryNoOps ==
    [][((event' = "undo" /\ historyIndex = 0)
          \/ (event' = "redo" /\ historyIndex = Len(history) - 1))
        => UNCHANGED <<heap, polygons, currentPolygon, history, historyIndex>>]_vars

C10_Witness ==
    /\ event = "redo"
    /\ prior.historyIndex = Len(history) - 1
    /\ historyIndex = prior.historyIndex
    /\ currentPolygon # NULL
    /\ Len(history) >= 3

\* A finished list: every polygon is finished and has at least 3 vertices.
AllFinished(ps) ==
    \A i \in 1..Len(ps) : ps[i].isFinished /\ Len(ps[i].vertices) >= 3

\* An optional polygon in progress: when present it is not finished.
Unfinished(cp) == cp = <<>> \/ ~cp[1].isFinished

\* C11: in the live state and in every snapshot of the history, every polygon
\* of the finished list is finished and has at least 3 vertices, and the polygon
\* in progress (at most one), when present, is not finished.
C11_ShapeFlags ==
    /\ AllFinished(Live.polygons)
    /\ Unfinished(Live.currentPolygon)
    /\ \A k \in 1..Len(history) :
           /\ AllFinished(SnapshotValue(heap, history[k]).polygons)
           /\ Unfinished(SnapshotValue(heap, history[k]).currentPolygon)

C11_Witness ==
    /\ Len(polygons) >= 1
    /\ currentPolygon # NULL
    /\ Len(history) >= 3
    /\ history[Len(history)].polygons # <<>>
    /\ history[Len(history)].currentPolygon # NULL

\* The points P1, P2, P3 of the end-to-end scenario.
ScenarioPoints == [i \in 1..3 |-> [x |-> i, y |-> i]]

\* The fields after construction and clicks at P1, P2, P3, and after the
\* double click that follows.
ScenarioClicks ==
    click(click(click(Constructed, ScenarioPoints[1]), ScenarioPoints[2]), ScenarioPoints[3])

ScenarioFinished == doubleClick(ScenarioClicks)

\* The controller is in the state S: same drawing, same history content, same
\* historyIndex (the preview point and the recorded origin apart).
SameDrawingAndHistory(S) ==
    /\ historyIndex = S.historyIndex
    /\ Live = LiveValue(S.heap, S.polygons, S.currentPolygon)
    /\ HistoryValue(heap, history) = HistoryValue(S.heap, S.history)

\* C12: a double click on a polygon in progress with k >= 3 vertices appends
\* exactly one polygon to the end of the finished list, finished and with the k
\* vertices in drawing order, keeps the earlier finished polygons, and leaves no
\* polygon in progress and no preview point.  From the constructed state, clicks
\* at P1, P2, P3 and a double click give the finished list <<[P1, P2, P3]>>, and
\* one undo then gives an empty finished list, no polygon in progress and
\* canUndo = FALSE.
C12_SuccessfulFinish ==
    [][/\ (event' = "handleDoubleClick" /\ currentPolygon # NULL
             /\ Len(heap[currentPolygon].vertices) >= 3)
          => /\ ListValue(heap', polygons') =
                    Append(Live.polygons,
                           [vertices |-> Live.currentPolygon[1].vertices, isFinished |-> TRUE])
             /\ currentPolygon' = NULL
             /\ previewPoint' = <<>>
       /\ (event' = "handleDoubleClick" /\ SameDrawingAndHistory(ScenarioClicks)
             /\ currentPolygonStartIndex = ScenarioClicks.currentPolygonStartIndex)
          => /\ ListValue(heap', polygons') =
                    <<[vertices |-> ScenarioPoints, isFinished |-> TRUE]>>
             /\ currentPolygon' = NULL
       /\ (event' = "undo" /\ SameDrawingAndHistory(ScenarioFinished))
          => /\ polygons' = <<>>
             /\ currentPolygon' = NULL
             /\ ~canUndo([historyIndex |-> historyIndex'])]_vars

C12_Witness ==
    /\ event = "undo"
    /\ prior.historyIndex = ScenarioFinished.historyIndex
    /\ prior.live = [polygons |-> <<[vertices |-> ScenarioPoints, isFinished |-> TRUE]>>,
                     currentPolygon |-> <<>>]
    /\ HistoryValue(heap, history) = HistoryValue(ScenarioFinished.heap, ScenarioFinished.history)
    /\ historyIndex = 0
    /\ polygons = <<>>

\* C13: in every reachable state there is a snapshot at historyIndex and what
\* is drawn (finished polygons, polygon in progress) is deep-equal to it.
C13_LiveIsCurrentSnapshot ==
    /\ historyIndex < Len(history)
    /\ Live = SnapshotValue(heap, history[historyIndex + 1])

\* C14: clear ends with an empty finished list, no polygon in progress and no
\* preview point, and pushes exactly one snapshot, the empty one, which becomes
\* the current and the last snapshot.
C14_ClearAll ==
    [][event' = "clear" =>
          /\ polygons' = <<>>
          /\ currentPolygon' = NULL
          /\ previewPoint' = <<>>
          /\ Len(history') = Len(slice(history, historyIndex + 1)) + 1
          /\ \A k \in 1..(Len(history') - 1) :
                 SnapshotValue(heap', history'[k]) = SnapshotValue(heap, history[k])
          /\ SnapshotValue(heap', history'[Len(history')]) =
                 [polygons |-> <<>>, currentPolygon |-> <<>>]
          /\ historyIndex' = Len(history') - 1]_vars

\* C15: a pointer move leaves the finished list, the polygon in progress, the
\* history, historyIndex and the recorded origin unchanged; it sets the preview
\* point to a pointer position when there is a polygon in progress with at least
\* 1 vertex, and otherwise leaves the preview point unchanged too.
C15_PointerMoveFrame ==
    [][event' = "handleMouseMove" =>
          /\ UNCHANGED <<heap, polygons, currentPolygon, history, historyIndex,
                         currentPolygonStartIndex>>
          /\ IF currentPolygon # NULL /\ Len(heap[currentPolygon].vertices) >= 1
             THEN \E pos \in MousePositions : previewPoint' = <<pos>>
             ELSE previewPoint' = previewPoint]_vars

C15_Witness ==
    /\ event = "handleMouseMove"
    /\ currentPolygon # NULL
    /\ polygons # <<>>
    /\ prior.previewPoint # <<>>
    /\ previewPoint # prior.previewPoint

\* The controller's fields after the step.
AppAfter ==
    [heap |-> heap', polygons |-> polygons', currentPolygon |-> currentPolygon',
     previewPoint |-> previewPoint', history |-> history',
     historyIndex |-> historyIndex',
     currentPolygonStartIndex |-> currentPolygonStartIndex',
     threw |-> FALSE]

\* What is drawn in the state S.
DrawnIn(S) == LiveValue(S.heap, S.polygons, S.currentPolygon)

\* C16: after a click or a clear, a single undo that follows immediately
\* restores the finished list and the polygon in progress to content deep-equal
\* to what they were just before the click or clear.
C16_OneUndoReverts ==
    [][event' \in {"handleClick", "clear"} => DrawnIn(undoApp(AppAfter)) = Live]_vars

\* C17: whenever there is a polygon in progress, currentPolygonStartIndex is
\* less than historyIndex, lies within the history, and the snapshot at that
\* index has no polygon in progress.
C17_OriginValidWhileBuilding ==
    currentPolygon # NULL =>
        /\ currentPolygonStartIndex < historyIndex
        /\ currentPolygonStartIndex < Len(history)
        /\ history[currentPolygonStartIndex + 1].currentPolygon = NULL

\* C18: the history starts as exactly one snapshot, the empty one, with
\* historyIndex 0; in every reachable state the history is not empty and its
\* snapshot at index 0 is still the empty one.
C18_FirstSnapshotKept ==
    /\ event = "constructor" => (Len(history) = 1 /\ historyIndex = 0)
    /\ Len(history) >= 1
    /\ SnapshotValue(heap, history[1]) = [polygons |-> <<>>, currentPolygon |-> <<>>]

C18_Witness ==
    /\ event = "handleDoubleClick"
    /\ prior.live.currentPolygon # <<>>
    /\ currentPolygon = NULL
    /\ currentPolygonStartIndex = 0
    /\ Len(history) = 2
    /\ historyIndex = 1

\* Nothing is drawn, historyIndex is 0 and undo is not possible.
UndoneToStart ==
    /\ polygons = <<>>
    /\ currentPolygon = NULL
    /\ historyIndex = 0
    /\ ~canUndo(App)

\* C19: once only undo is requested, the controller eventually reaches and
\* stays in the state with nothing drawn, historyIndex 0 and canUndo = FALSE,
\* and it is there after at most historyIndex undo requests (at once when
\* historyIndex is 0).
C19_UndoOnlyReachesStart ==
    /\ (undoOnly # <<>>) ~> UndoneToStart
    /\ [][(undoOnly # <<>> /\ UndoneToStart) =>
             (polygons' = <<>> /\ currentPolygon' = NULL /\ historyIndex' = 0)]_vars
    /\ [](undoOnly = <<0>> => UndoneToStart)
    /\ [](historyIndex = 0 => UndoneToStart)

C19_Witness ==
    /\ undoOnly = <<0>>
    /\ event = "undo"
    /\ prior.historyIndex = 1
    /\ prior.live.polygons # <<>>
    /\ Len(history) >= 4
    /\ UndoneToStart

\* The vertices of the polygon in progress (none when there is no polygon).
OpenVertices == IF currentPolygon = NULL THEN <<>> ELSE Live.currentPolygon[1].vertices

\* C20: a click leaves the finished list unchanged and changes the polygon in
\* progress only by appending the clicked point as its last vertex (to an empty
\* polygon when there was none); and no handler other than undo, redo, clear or
\* a double click that finishes the polygon makes the vertex sequence of the
\* polygon in progress shorter or changes the order of its vertices.
C20_ClickAppendsVertex ==
    [][/\ event' = "handleClick" =>
             /\ ListValue(heap', polygons') = Live.polygons
             /\ currentPolygon' # NULL
             /\ PolygonValue(heap', currentPolygon') =
                    [vertices |-> Append(OpenVertices, ClickPosition), isFinished |-> FALSE]
       /\ (/\ currentPolygon # NULL
           /\ event' \notin {"undo", "redo", "clear"}
           /\ ~(event' = "handleDoubleClick" /\ Len(OpenVertices) >= 3))
          => /\ currentPolygon' # NULL
             /\ Len(heap'[currentPolygon'].vertices) >= Len(OpenVertices)
             /\ SubSeq(PolygonValue(heap', currentPolygon').vertices, 1, Len(OpenVertices))
                    = OpenVertices]_vars

C20_Witness ==
    /\ event = "handleClick"
    /\ polygons # <<>>
    /\ prior.live.currentPolygon # <<>>
    /\ Len(prior.live.currentPolygon[1].vertices) = 2
    /\ Len(OpenVertices) = 3
    /\ OpenVertices[1] # OpenVertices[2]
    /\ OpenVertices[2] # OpenVertices[3]

\* C21: in every reachable state a preview point is present only if there is a
\* polygon in progress with at least one vertex; so every handler that leaves
\* no polygon in progress leaves no preview point either.
C21_PreviewOnlyWhileBuilding ==
    previewPoint # <<>> =>
        (currentPolygon # NULL /\ Len(heap[currentPolygon].vertices) >= 1)

C21_Witness ==
    /\ event = "clear"
    /\ prior.previewPoint # <<>>
    /\ prior.live.currentPolygon # <<>>
    /\ currentPolygon = NULL
    /\ previewPoint = <<>>

\* C22: run side by side on the same events, the documented variant and the
\* early-return variant have in every state the same finished list, polygon in
\* progress, preview point, history, historyIndex and recorded origin.
C22_VariantsAgree ==
    /\ LiveValue(early.heap, early.polygons, early.currentPolygon) = Live
    /\ early.previewPoint = previewPoint
    /\ HistoryValue(early.heap, early.history) = HistoryValue(heap, history)
    /\ early.historyIndex = historyIndex
    /\ early.currentPolygonStartIndex = currentPolygonStartIndex

C22_Witness ==
    /\ event = "redo"
    /\ prior.historyIndex = Len(history) - 1
    /\ early.historyIndex = Len(early.history) - 1
    /\ Len(early.history) >= 4
    /\ early.polygons # <<>>
    /\ early.currentPolygon # NULL
    /\ early.previewPoint # <<>>

====
